---- MODULE Spec2Model ----
(***************************************************************************)
(* Model of listenbrainz_spark/query_map.py: the module-level dict         *)
(* `functions` that binds query identifiers to job handlers, and            *)
(* get_query_handler, which subscripts it.  The request consumer's          *)
(* dispatch step around the lookup (invoke) is modelled from the            *)
(* specification of its contract.                                           *)
(*                                                                         *)
(* Python strings are modelled as sequences of one-character strings so     *)
(* that equality, prefixes and letter case are computed, not assumed.       *)
(* Handlers are opaque references, named by their dotted path below         *)
(* the listenbrainz_spark package.                                          *)
(***************************************************************************)
EXTENDS Integers, Sequences, FiniteSets, TLC

VARIABLES functions, inv, failed, items, pos, raised

vars == <<functions, inv, failed, items, pos, raised>>

(***************************************************************************)
(* Bounds of the model.                                                     *)
(***************************************************************************)
\* number of invocations that may be in flight at once (SpecConc)
NumThreads == 2
\* longest dict display evaluated by SpecBuild
MaxItems == 3

(***************************************************************************)
(* The dict display of query_map.py, lines 30-65: its key/value items in    *)
(* source order.                                                            *)
(***************************************************************************)
FunctionsDisplay ==
   << << <<"s","t","a","t","s",".","u","s","e","r",".","e","n","t","i","t","y">>,
         "stats.user.entity.get_entity_stats" >>,
      << <<"s","t","a","t","s",".","u","s","e","r",".","l","i","s","t","e","n","i","n","g","_","a","c","t","i","v","i","t","y">>,
         "stats.user.listening_activity.get_listening_activity" >>,
      << <<"s","t","a","t","s",".","u","s","e","r",".","d","a","i","l","y","_","a","c","t","i","v","i","t","y">>,
         "stats.user.daily_activity.get_daily_activity" >>,
      << <<"s","t","a","t","s",".","s","i","t","e","w","i","d","e",".","e","n","t","i","t","y">>,
         "stats.sitewide.entity.get_entity_stats" >>,
      << <<"s","t","a","t","s",".","s","i","t","e","w","i","d","e",".","l","i","s","t","e","n","i","n","g","_","a","c","t","i","v","i","t","y">>,
         "stats.sitewide.listening_activity.get_listening_activity" >>,
      << <<"i","m","p","o","r","t",".","d","u","m","p",".","f","u","l","l","_","n","e","w","e","s","t">>,
         "request_consumer.jobs.import_dump.import_newest_full_dump_handler" >>,
      << <<"i","m","p","o","r","t",".","d","u","m","p",".","f","u","l","l","_","i","d">>,
         "request_consumer.jobs.import_dump.import_full_dump_by_id_handler" >>,
      << <<"i","m","p","o","r","t",".","d","u","m","p",".","i","n","c","r","e","m","e","n","t","a","l","_","n","e","w","e","s","t">>,
         "request_consumer.jobs.import_dump.import_newest_incremental_dump_handler" >>,
      << <<"i","m","p","o","r","t",".","d","u","m","p",".","i","n","c","r","e","m","e","n","t","a","l","_","i","d">>,
         "request_consumer.jobs.import_dump.import_incremental_dump_by_id_handler" >>,
      << <<"c","f",".","m","i","s","s","i","n","g","_","m","b","_","d","a","t","a">>,
         "missing_mb_data.missing_mb_data.main" >>,
      << <<"c","f",".","r","e","c","o","m","m","e","n","d","a","t","i","o","n","s",".","r","e","c","o","r","d","i","n","g",".","c","r","e","a","t","e","_","d","a","t","a","f","r","a","m","e","s">>,
         "recommendations.recording.create_dataframes.main" >>,
      << <<"c","f",".","r","e","c","o","m","m","e","n","d","a","t","i","o","n","s",".","r","e","c","o","r","d","i","n","g",".","t","r","a","i","n","_","m","o","d","e","l">>,
         "recommendations.recording.train_models.main" >>,
      << <<"c","f",".","r","e","c","o","m","m","e","n","d","a","t","i","o","n","s",".","r","e","c","o","r","d","i","n","g",".","c","a","n","d","i","d","a","t","e","_","s","e","t","s">>,
         "recommendations.recording.candidate_sets.main" >>,
      << <<"c","f",".","r","e","c","o","m","m","e","n","d","a","t","i","o","n","s",".","r","e","c","o","r","d","i","n","g",".","r","e","c","o","m","m","e","n","d","a","t","i","o","n","s">>,
         "recommendations.recording.recommend.main" >>,
      << <<"c","f",".","r","e","c","o","m","m","e","n","d","a","t","i","o","n","s",".","r","e","c","o","r","d","i","n","g",".","d","i","s","c","o","v","e","r","y">>,
         "recommendations.recording.discovery.get_recording_discovery" >>,
      << <<"i","m","p","o","r","t",".","a","r","t","i","s","t","_","r","e","l","a","t","i","o","n">>,
         "request_consumer.jobs.import_dump.import_artist_relation_to_hdfs" >>,
      << <<"i","m","p","o","r","t",".","m","u","s","i","c","b","r","a","i","n","z","_","r","e","l","e","a","s","e","_","d","u","m","p">>,
         "request_consumer.jobs.import_dump.import_release_json_dump_to_hdfs" >>,
      << <<"s","i","m","i","l","a","r","i","t","y",".","s","i","m","i","l","a","r","_","u","s","e","r","s">>,
         "similarity.user.main" >>,
      << <<"s","i","m","i","l","a","r","i","t","y",".","r","e","c","o","r","d","i","n","g">>,
         "similarity.recording.main" >>,
      << <<"s","i","m","i","l","a","r","i","t","y",".","a","r","t","i","s","t">>,
         "similarity.artist.main" >>,
      << <<"y","e","a","r","_","i","n","_","m","u","s","i","c",".","n","e","w","_","r","e","l","e","a","s","e","s","_","o","f","_","t","o","p","_","a","r","t","i","s","t","s">>,
         "year_in_music.new_releases_of_top_artists.get_new_releases_of_top_artists" >>,
      << <<"y","e","a","r","_","i","n","_","m","u","s","i","c",".","t","r","a","c","k","s","_","o","f","_","t","h","e","_","y","e","a","r">>,
         "year_in_music.tracks_of_the_year.calculate_tracks_of_the_year" >>,
      << <<"y","e","a","r","_","i","n","_","m","u","s","i","c",".","m","o","s","t","_","l","i","s","t","e","n","e","d","_","y","e","a","r">>,
         "year_in_music.most_listened_year.get_most_listened_year" >>,
      << <<"y","e","a","r","_","i","n","_","m","u","s","i","c",".","d","a","y","_","o","f","_","w","e","e","k">>,
         "year_in_music.day_of_week.get_day_of_week" >>,
      << <<"y","e","a","r","_","i","n","_","m","u","s","i","c",".","s","i","m","i","l","a","r","_","u","s","e","r","s">>,
         "year_in_music.similar_users.get_similar_users" >>,
      << <<"y","e","a","r","_","i","n","_","m","u","s","i","c",".","t","o","p","_","s","t","a","t","s">>,
         "year_in_music.top_stats.calculate_top_entity_stats" >>,
      << <<"y","e","a","r","_","i","n","_","m","u","s","i","c",".","l","i","s","t","e","n","s","_","p","e","r","_","d","a","y">>,
         "year_in_music.listens_per_day.calculate_listens_per_day" >>,
      << <<"y","e","a","r","_","i","n","_","m","u","s","i","c",".","l","i","s","t","e","n","_","c","o","u","n","t">>,
         "year_in_music.listen_count.get_listen_count" >>,
      << <<"y","e","a","r","_","i","n","_","m","u","s","i","c",".","n","e","w","_","a","r","t","i","s","t","s","_","d","i","s","c","o","v","e","r","e","d","_","c","o","u","n","t">>,
         "year_in_music.new_artists_discovered.get_new_artists_discovered_count" >>,
      << <<"y","e","a","r","_","i","n","_","m","u","s","i","c",".","l","i","s","t","e","n","i","n","g","_","t","i","m","e">>,
         "year_in_music.listening_time.get_listening_time" >>,
      << <<"y","e","a","r","_","i","n","_","m","u","s","i","c",".","a","r","t","i","s","t","_","m","a","p">>,
         "year_in_music.artist_map.get_artist_map_stats" >>,
      << <<"i","m","p","o","r","t",".","p","g","_","m","e","t","a","d","a","t","a","_","t","a","b","l","e","s">>,
         "postgres.release.create_release_metadata_cache" >>,
      << <<"r","e","l","e","a","s","e","s",".","f","r","e","s","h">>,
         "fresh_releases.fresh_releases.main" >> >>

ItemKey(item) == item[1]
ItemValue(item) == item[2]

(***************************************************************************)
(* Python semantics of a dict display: the items are evaluated left to      *)
(* right and each is stored into the new dict; storing a key that is        *)
(* already present replaces its value and raises nothing.                   *)
(***************************************************************************)
EmptyDict == [k \in {} |-> "None"]

StoreItem(d, item) ==
   [k \in DOMAIN d \cup {ItemKey(item)} |->
      IF k = ItemKey(item) THEN ItemValue(item) ELSE d[k]]

RECURSIVE DictDisplay(_)
DictDisplay(its) ==
   IF its = <<>> THEN EmptyDict
   ELSE StoreItem(DictDisplay(SubSeq(its, 1, Len(its) - 1)), its[Len(its)])

\* a display whose last key was mistyped as the name of the module it imports
Functions_mistyped ==
   DictDisplay([FunctionsDisplay EXCEPT ![Len(FunctionsDisplay)][1] =
      <<"f","r","e","s","h","_","r","e","l","e","a","s","e","s">>])

\* the module global `functions` once query_map has been imported
Functions == DictDisplay(FunctionsDisplay)

(***************************************************************************)
(* d[k] on a dict: the bound value, or KeyError(k) when k is not a key.     *)
(* Keys are compared by string equality (same length, same characters).     *)
(***************************************************************************)
Subscript(d, k) ==
   IF k \in DOMAIN d
   THEN [kind |-> "return", value |-> d[k]]
   ELSE [kind |-> "raise", exc |-> "KeyError", arg |-> k]

(***************************************************************************)
(* Slips of get_query_handler used to test the properties below.            *)
(***************************************************************************)
LowerLetters ==
   <<"a","b","c","d","e","f","g","h","i","j","k","l","m",
     "n","o","p","q","r","s","t","u","v","w","x","y","z">>
UpperLetters ==
   <<"A","B","C","D","E","F","G","H","I","J","K","L","M",
     "N","O","P","Q","R","S","T","U","V","W","X","Y","Z">>

LowerChar(c) ==
   IF \E i \in DOMAIN UpperLetters : UpperLetters[i] = c
   THEN LowerLetters[CHOOSE i \in DOMAIN UpperLetters : UpperLetters[i] = c]
   ELSE c
UpperChar(c) ==
   IF \E i \in DOMAIN LowerLetters : LowerLetters[i] = c
   THEN UpperLetters[CHOOSE i \in DOMAIN LowerLetters : LowerLetters[i] = c]
   ELSE c
Lower(s) == [i \in DOMAIN s |-> LowerChar(s[i])]
Upper(s) == [i \in DOMAIN s |-> UpperChar(s[i])]

StartsWith(s, p) == Len(p) <= Len(s) /\ SubSeq(s, 1, Len(p)) = p

\* functions.pop(query): the lookup consumes the binding
get_query_handler_pop(fs, query) ==
   [result |-> Subscript(fs, query),
    functions |-> [k \in DOMAIN fs \ {query} |-> fs[k]]]

\* functions[query.lower()]: the lookup folds letter case
get_query_handler_lower(fs, query) ==
   [result |-> Subscript(fs, Lower(query)), functions |-> fs]

\* first key that starts with the query: the lookup matches a prefix
get_query_handler_startswith(fs, query) ==
   [result |->
      IF \E k \in DOMAIN fs : StartsWith(k, query)
      THEN [kind |-> "return",
            value |-> fs[CHOOSE k \in DOMAIN fs : StartsWith(k, query)]]
      ELSE [kind |-> "raise", exc |-> "KeyError", arg |-> query],
    functions |-> fs]

\* functions.setdefault(query, <some handler>): a miss binds the identifier
get_query_handler_setdefault(fs, query) ==
   [result |->
      IF query \in DOMAIN fs
      THEN [kind |-> "return", value |-> fs[query]]
      ELSE [kind |-> "return", value |-> ItemValue(FunctionsDisplay[1])],
    functions |->
      IF query \in DOMAIN fs THEN fs
      ELSE StoreItem(fs, <<query, ItemValue(FunctionsDisplay[1])>>)]

\* functions.get(query, <some handler>): a miss falls back to a default
get_query_handler_default(fs, query) ==
   [result |->
      IF query \in DOMAIN fs
      THEN [kind |-> "return", value |-> fs[query]]
      ELSE [kind |-> "return", value |-> ItemValue(FunctionsDisplay[1])],
    functions |-> fs]

(***************************************************************************)
(* get_query_handler(query): return functions[query].  The operator gives   *)
(* the outcome of the call and the value of the global `functions` after    *)
(* it; a subscript reads the dict and stores nothing.                        *)
(***************************************************************************)
get_query_handler(fs, query) ==
   [result |-> Subscript(fs, query), functions |-> fs]

(***************************************************************************)
(* Inputs.  Keys are the identifiers the display binds.  Queries are the    *)
(* identifiers a request may carry: every key, every prefix of a key        *)
(* (the empty string and the bare subsystem prefixes among them), every     *)
(* key in upper case and capitalised, every key extended by a character,    *)
(* and an identifier of no subsystem.                                       *)
(***************************************************************************)
Keys == {ItemKey(FunctionsDisplay[i]) : i \in DOMAIN FunctionsDisplay}

Prefixes(s) == {SubSeq(s, 1, n) : n \in 0..Len(s)}

Capitalize(s) == [i \in DOMAIN s |-> IF i = 1 THEN UpperChar(s[i]) ELSE s[i]]

UnknownQueryId == <<"u","n","k","n","o","w","n",".","q","u","e","r","y">>

Queries ==
   Keys
   \cup UNION {Prefixes(k) : k \in Keys}
   \cup {Upper(k) : k \in Keys}
   \cup {Capitalize(k) : k \in Keys}
   \cup {k \o <<".">> : k \in Keys}
   \cup {k \o <<" ">> : k \in Keys}
   \cup {k \o <<"s">> : k \in Keys}
   \cup {UnknownQueryId}

Params == {"params_a", "params_b"}

\* what a failing handler raises; the handlers are external collaborators
Causes == {"ValueError", "KeyError"}

StatsUserEntity == ItemKey(FunctionsDisplay[1])
SimilarityArtist == ItemKey(FunctionsDisplay[20])

\* the identifiers concurrent requests carry in SpecConc
ConcQueries ==
   {StatsUserEntity, SimilarityArtist, UnknownQueryId, Upper(StatsUserEntity), <<>>}

\* the items a display evaluated by SpecBuild is made of
BuildItems ==
   {<<k, h>> : k \in {StatsUserEntity, SimilarityArtist},
               h \in {ItemValue(FunctionsDisplay[1]), ItemValue(FunctionsDisplay[20])}}

RECURSIVE SeqsUpTo(_, _)
SeqsUpTo(S, n) ==
   IF n = 0 THEN {<<>>}
   ELSE LET shorter == SeqsUpTo(S, n - 1)
        IN shorter \cup {Append(s, x) : s \in {r \in shorter : Len(r) = n - 1}, x \in S}

(***************************************************************************)
(* invoke(identifier, params): resolve the handler with                     *)
(* get_query_handler, then call it with params.  A KeyError of the lookup   *)
(* is reported as UnknownQuery and no handler is called; an exception of    *)
(* the handler is reported as HandlerExecutionError with its cause.         *)
(* inv[t] is the invocation thread t is running; its field lookup keeps    *)
(* the outcome of get_query_handler as the code produced it.                *)
(***************************************************************************)
Idle ==
   [pc |-> "idle", query |-> <<>>, params |-> "None", lookup |-> [kind |-> "none"],
    handler |-> "None", calls |-> <<>>, reports |-> <<>>, result |-> "None"]

Receive(t, q, p) ==
   /\ inv[t].pc = "idle"
   /\ inv' = [inv EXCEPT ![t] = [Idle EXCEPT !.pc = "resolve", !.query = q, !.params = p]]
   /\ UNCHANGED <<functions, failed, items, pos, raised>>

Resolve(t) ==
   /\ inv[t].pc = "resolve"
   /\ LET r == get_query_handler(functions, inv[t].query)
      IN /\ functions' = r.functions
         /\ inv' = [inv EXCEPT ![t] =
               IF r.result.kind = "return"
               THEN [@ EXCEPT !.pc = "call", !.lookup = r.result,
                              !.handler = r.result.value]
               ELSE [@ EXCEPT !.pc = "done", !.lookup = r.result,
                              !.reports = Append(@,
                                 [kind |-> "UnknownQuery",
                                  identifier |-> r.result.arg,
                                  cause |-> r.result.exc])]]
   /\ UNCHANGED <<failed, items, pos, raised>>

HandlerReturns(t) ==
   /\ inv[t].pc = "call"
   /\ inv' = [inv EXCEPT ![t] =
         [@ EXCEPT !.pc = "done",
                   !.calls = Append(@, <<inv[t].handler, inv[t].params>>),
                   !.result = "result"]]
   /\ UNCHANGED <<functions, failed, items, pos, raised>>

HandlerRaises(t, e) ==
   /\ inv[t].pc = "call"
   /\ inv' = [inv EXCEPT ![t] =
         [@ EXCEPT !.pc = "done",
                   !.calls = Append(@, <<inv[t].handler, inv[t].params>>),
                   !.reports = Append(@,
                      [kind |-> "HandlerExecutionError",
                       identifier |-> inv[t].query,
                       cause |-> e])]]
   /\ UNCHANGED <<functions, failed, items, pos, raised>>

\* the invocation is over; `failed` remembers the failure kinds reported so far
Finish(t) ==
   /\ inv[t].pc = "done"
   /\ failed' = failed \cup {inv[t].reports[i].kind : i \in DOMAIN inv[t].reports}
   /\ inv' = [inv EXCEPT ![t] = Idle]
   /\ UNCHANGED <<functions, items, pos, raised>>

(***************************************************************************)
(* Evaluation of a dict display, one item per step.                         *)
(***************************************************************************)
BuildItem ==
   /\ pos < Len(items)
   /\ raised = "None"
   /\ functions' = StoreItem(functions, items[pos + 1])
   /\ pos' = pos + 1
   /\ UNCHANGED <<inv, failed, items, raised>>

(***************************************************************************)
(* Spec: query_map has been imported; one consumer sends requests over      *)
(* every identifier of Queries, one at a time.                              *)
(***************************************************************************)
Init ==
   /\ functions = Functions
   /\ inv = [t \in {1} |-> Idle]
   /\ failed = {}
   /\ items = FunctionsDisplay
   /\ pos = Len(FunctionsDisplay)
   /\ raised = "None"

Next ==
   \E t \in {1} :
      \/ \E q \in Queries, p \in Params : Receive(t, q, p)
      \/ Resolve(t)
      \/ HandlerReturns(t)
      \/ \E e \in Causes : HandlerRaises(t, e)
      \/ Finish(t)

Spec == Init /\ [][Next]_vars

(***************************************************************************)
(* SpecConc: NumThreads invocations interleave, step by step.               *)
(***************************************************************************)
InitConc ==
   /\ functions = Functions
   /\ inv = [t \in 1..NumThreads |-> Idle]
   /\ failed = {}
   /\ items = FunctionsDisplay
   /\ pos = Len(FunctionsDisplay)
   /\ raised = "None"

NextConc ==
   \E t \in 1..NumThreads :
      \/ \E q \in ConcQueries, p \in Params : Receive(t, q, p)
      \/ Resolve(t)
      \/ HandlerReturns(t)
      \/ \E e \in Causes : HandlerRaises(t, e)
      \/ Finish(t)

SpecConc == InitConc /\ [][NextConc]_vars

(***************************************************************************)
(* SpecBuild: the import of a module whose display is any sequence of at    *)
(* most MaxItems items, as the display of query_map.py may be edited into.  *)
(***************************************************************************)
InitBuild ==
   /\ items \in SeqsUpTo(BuildItems, MaxItems)
   /\ functions = EmptyDict
   /\ pos = 0
   /\ raised = "None"
   /\ inv = [t \in {1} |-> Idle]
   /\ failed = {}

NextBuild == BuildItem

SpecBuild == InitBuild /\ [][NextBuild]_vars

(***************************************************************************)
(* Vocabulary of the properties.  These are computed from the display,      *)
(* item by item and character by character, not from the dict built of it.  *)
(***************************************************************************)
SameString(a, b) == Len(a) = Len(b) /\ \A i \in 1..Len(a) : a[i] = b[i]

\* the handlers the display binds to identifier q
BoundHandlers(q) ==
   {ItemValue(FunctionsDisplay[i]) :
      i \in {j \in DOMAIN FunctionsDisplay : SameString(ItemKey(FunctionsDisplay[j]), q)}}

Registered(q) == BoundHandlers(q) # {}

\* t has an invocation whose lookup has run
Resolved(t) == inv[t].pc \in {"call", "done"}

\* q is no registered identifier but differs from one only in letter case,
\* or is a proper prefix or an extension of one
NearMiss(q) ==
   /\ ~Registered(q)
   /\ \E k \in Keys :
         \/ SameString(Lower(q), Lower(k))
         \/ StartsWith(k, q)
         \/ StartsWith(q, k)

SubsystemPrefixes ==
   { <<"s","t","a","t","s",".">>,
     <<"c","f",".">>,
     <<"s","i","m","i","l","a","r","i","t","y",".">>,
     <<"i","m","p","o","r","t",".">>,
     <<"y","e","a","r","_","i","n","_","m","u","s","i","c",".">>,
     <<"r","e","l","e","a","s","e","s",".">> }

UnknownQueryReport(q) ==
   [kind |-> "UnknownQuery", identifier |-> q, cause |-> "KeyError"]

\* C1: for every registered identifier q and every payload, invoke(q, params)
\* resolves to the handler the display binds to q and calls exactly that
\* handler, once, with the payload, and calls no other handler.
C1_InvokeCallsBoundHandler ==
   \A t \in DOMAIN inv :
      (Registered(inv[t].query) /\ inv[t].pc # "idle") =>
         /\ inv[t].pc = "resolve" => inv[t].calls = <<>>
         /\ inv[t].pc = "call" =>
               /\ BoundHandlers(inv[t].query) = {inv[t].handler}
               /\ inv[t].calls = <<>>
         /\ inv[t].pc = "done" =>
               /\ BoundHandlers(inv[t].query) = {inv[t].handler}
               /\ inv[t].calls = << <<inv[t].handler, inv[t].params>> >>

C1_Witness ==
   \E t \in DOMAIN inv :
      /\ inv[t].pc = "done"
      /\ inv[t].query = ItemKey(FunctionsDisplay[Len(FunctionsDisplay)])
      /\ inv[t].params = "params_b"
      /\ inv[t].calls = << <<"fresh_releases.fresh_releases.main", "params_b">> >>
      /\ failed # {}

\* C2: for every identifier that is not registered, the empty string and
\* malformed strings included, the lookup raises KeyError, invoke reports
\* UnknownQuery and no handler is called.
C2_UnregisteredFailsUnknownQuery ==
   \A t \in DOMAIN inv :
      (~Registered(inv[t].query) /\ inv[t].pc \notin {"idle", "resolve"}) =>
         /\ inv[t].pc = "done"
         /\ inv[t].lookup = [kind |-> "raise", exc |-> "KeyError", arg |-> inv[t].query]
         /\ inv[t].reports = <<UnknownQueryReport(inv[t].query)>>
         /\ inv[t].handler = "None"
         /\ inv[t].calls = <<>>
         /\ inv[t].result = "None"

C2_Witness ==
   \E t \in DOMAIN inv :
      /\ inv[t].pc = "done"
      /\ inv[t].query = <<>>
      /\ inv[t].reports = <<UnknownQueryReport(<<>>)>>
      /\ inv[t].calls = <<>>

C4_RegistryImmutable ==
   /\ functions = Functions
   /\ \A t, u \in DOMAIN inv :
         (Resolved(t) /\ Resolved(u) /\ inv[t].query = inv[u].query) =>
            inv[t].lookup = inv[u].lookup

C4_Witness ==
   /\ Cardinality(DOMAIN inv) > 1
   /\ \E t, u \in DOMAIN inv :
         /\ t # u
         /\ Resolved(t) /\ Resolved(u)
         /\ inv[t].query = SimilarityArtist /\ inv[u].query = SimilarityArtist
         /\ inv[t].lookup = [kind |-> "return", value |-> "similarity.artist.main"]
         /\ failed = {"UnknownQuery", "HandlerExecutionError"}

\* what get_query_handler(q) gives when it runs alone on the imported module
Alone(q) == get_query_handler(Functions, q).result

\* C5: under every interleaving of concurrent invocations, on the same or on
\* different identifiers, each lookup has the outcome it has when it runs
\* alone: the same handler, or the same KeyError.
C5_ConcurrentResolutionIndependent ==
   \A t \in DOMAIN inv :
      Resolved(t) =>
         /\ inv[t].lookup = Alone(inv[t].query)
         /\ inv[t].lookup.kind = "return" =>
               BoundHandlers(inv[t].query) = {inv[t].lookup.value}
         /\ inv[t].lookup.kind = "raise" =>
               ~Registered(inv[t].query) /\ inv[t].lookup.exc = "KeyError"

C5_Witness ==
   /\ Cardinality(DOMAIN inv) > 1
   /\ \E t, u \in DOMAIN inv :
         /\ t # u
         /\ inv[t].pc = "call" /\ inv[u].pc = "call"
         /\ inv[t].query = StatsUserEntity /\ inv[u].query = StatsUserEntity
         /\ inv[t].lookup.value = "stats.user.entity.get_entity_stats"
         /\ inv[u].lookup.value = "stats.user.entity.get_entity_stats"
         /\ "UnknownQuery" \in failed

\* C6: a failed request is reported as exactly one failure kind; a handler
\* that raises is reported as HandlerExecutionError with the raised
\* exception as cause, never as UnknownQuery; UnknownQuery is reported only
\* for an identifier the registry does not bind.
C6_FailureKindsDistinct ==
   \A t \in DOMAIN inv :
      /\ Len(inv[t].reports) <= 1
      /\ (inv[t].pc = "done" /\ inv[t].result = "None") => Len(inv[t].reports) = 1
      /\ (inv[t].pc = "done" /\ inv[t].result # "None") => inv[t].reports = <<>>
      /\ \A i \in DOMAIN inv[t].reports :
            LET r == inv[t].reports[i]
            IN /\ r.kind \in {"UnknownQuery", "HandlerExecutionError"}
               /\ r.identifier = inv[t].query
               /\ r.kind = "UnknownQuery" =>
                     ~Registered(inv[t].query) /\ inv[t].calls = <<>>
               /\ r.kind = "HandlerExecutionError" =>
                     /\ Registered(inv[t].query)
                     /\ Len(inv[t].calls) = 1
                     /\ r.cause \in Causes
      /\ (inv[t].pc = "done" /\ inv[t].calls # <<>> /\ inv[t].result = "None") =>
            inv[t].reports[1].kind = "HandlerExecutionError"

C6_Witness ==
   \E t \in DOMAIN inv :
      /\ inv[t].pc = "done"
      /\ inv[t].query = SimilarityArtist
      /\ inv[t].reports =
            <<[kind |-> "HandlerExecutionError", identifier |-> SimilarityArtist,
               cause |-> "KeyError"]>>
      /\ "UnknownQuery" \in failed

\* C7: the lookup is exact-match and case-sensitive: it returns a handler
\* only for a string equal character for character to a registered
\* identifier; a string that differs from one only in letter case, or is a
\* proper prefix or an extension of one, raises KeyError and resolves to
\* no handler.
C7_ExactMatchOnly ==
   \A t \in DOMAIN inv :
      Resolved(t) =>
         /\ inv[t].lookup.kind = "return" =>
               \E i \in DOMAIN FunctionsDisplay :
                  /\ SameString(ItemKey(FunctionsDisplay[i]), inv[t].query)
                  /\ inv[t].lookup.value = ItemValue(FunctionsDisplay[i])
         /\ NearMiss(inv[t].query) =>
               /\ inv[t].lookup.kind = "raise"
               /\ inv[t].lookup.exc = "KeyError"
               /\ inv[t].lookup.arg = inv[t].query

C7_Witness ==
   \E t \in DOMAIN inv :
      /\ inv[t].pc = "done"
      /\ inv[t].query = Upper(StatsUserEntity)
      /\ NearMiss(inv[t].query)
      /\ inv[t].lookup.kind = "raise"
      /\ \E q \in Queries : StartsWith(StatsUserEntity, q) /\ q # StatsUserEntity /\ Len(q) > 0
      /\ \E q \in Queries : StartsWith(q, StatsUserEntity) /\ q # StatsUserEntity

\* C8: a failed request does not disable the dispatcher: once requests have
\* failed, with UnknownQuery or with HandlerExecutionError, every binding
\* of the registry is as the display made it and an invocation of a
\* registered identifier still calls the handler bound to it.
C8_FailureLeavesDispatcherUsable ==
   failed # {} =>
      /\ \A k \in Keys : k \in DOMAIN functions /\ BoundHandlers(k) = {functions[k]}
      /\ \A t \in DOMAIN inv :
            (Registered(inv[t].query) /\ Resolved(t)) =>
               /\ inv[t].lookup.kind = "return"
               /\ BoundHandlers(inv[t].query) = {inv[t].handler}
               /\ inv[t].pc = "done" => inv[t].calls = << <<inv[t].handler, inv[t].params>> >>

C8_Witness ==
   /\ failed = {"UnknownQuery", "HandlerExecutionError"}
   /\ \E t \in DOMAIN inv :
         /\ inv[t].pc = "done"
         /\ inv[t].query = StatsUserEntity
         /\ inv[t].result = "result"
         /\ inv[t].calls = << <<"stats.user.entity.get_entity_stats", inv[t].params>> >>

\* C9: every identifier of the constructed registry is a non-empty string,
\* is bound by exactly one item of the display to the handler the registry
\* holds for it, and begins with one of the subsystem prefixes stats., cf.,
\* similarity., import., year_in_music. or releases.
C9_IdentifiersWellFormed ==
   \A k \in DOMAIN functions :
      /\ Len(k) > 0
      /\ Cardinality({i \in DOMAIN FunctionsDisplay : ItemKey(FunctionsDisplay[i]) = k}) = 1
      /\ BoundHandlers(k) = {functions[k]}
      /\ \E p \in SubsystemPrefixes : StartsWith(k, p) /\ Len(k) > Len(p)

C9_Witness ==
   /\ pos = Len(FunctionsDisplay)
   /\ Cardinality(DOMAIN functions) = Len(FunctionsDisplay)
   /\ \A p \in SubsystemPrefixes : \E k \in DOMAIN functions : StartsWith(k, p)
   /\ \E t \in DOMAIN inv : Resolved(t)

\* C10: the dispatcher adds no retry and no fallback: one invocation calls
\* at most one handler, at most once, and only the handler bound to its
\* identifier; when the lookup fails no handler is called, and once a
\* failure is reported the invocation is over.
C10_NoRetryNoFallback ==
   \A t \in DOMAIN inv :
      /\ Len(inv[t].calls) <= 1
      /\ \A i \in DOMAIN inv[t].calls :
            /\ BoundHandlers(inv[t].query) = {inv[t].calls[i][1]}
            /\ inv[t].calls[i][2] = inv[t].params
      /\ inv[t].lookup.kind = "raise" => inv[t].calls = <<>>
      /\ ~Registered(inv[t].query) => inv[t].calls = <<>>
      /\ inv[t].reports # <<>> => inv[t].pc = "done"

C10_Witness ==
   \E t \in DOMAIN inv :
      /\ inv[t].pc = "done"
      /\ inv[t].query = SimilarityArtist
      /\ inv[t].calls = << <<"similarity.artist.main", inv[t].params>> >>
      /\ inv[t].reports # <<>>
      /\ inv[t].reports[1].kind = "HandlerExecutionError"
      /\ "HandlerExecutionError" \in failed

====
